---------------------------- MODULE Spec2Model ----------------------------
(***************************************************************************)
(* A model of the two scripts of wware/nyuck:                              *)
(*   glarf.py  - DBpediaMedicalGraphRAG: query_medical_entity,             *)
(*               update_knowledge_graph, generate_rag_context              *)
(*   nyuck.py  - GraphRAG: scrape_website, add_node, add_edge, query       *)
(*                                                                         *)
(* Python values are modelled as follows.  A str that the code inspects    *)
(* character by character (labels, queries, type URIs) is a sequence of    *)
(* one-character strings; other strs are TLA+ strings.  A dict is a        *)
(* function whose DOMAIN is the dict's key set, so "k in d" is             *)
(* k \in DOMAIN d.  A list is a sequence.  An Optional is a sequence of    *)
(* length 0 (None) or 1.  networkx keeps nodes and adjacency in insertion  *)
(* order, so node collections are sequences without repetition.            *)
(***************************************************************************)
EXTENDS Integers, Sequences, FiniteSets, TLC

VARIABLES
    \* ---- glarf.py, query_medical_entity
    response,       \* results["results"]["bindings"] of the SPARQL call
    entity,         \* the Optional[MedicalEntity] returned
    returned,       \* TRUE once query_medical_entity has returned
    \* ---- glarf.py, self.knowledge_graph (nx.DiGraph) and its callers
    kgNodes,        \* node URIs in insertion order
    kgAttr,         \* node URI -> attribute dict
    kgEdges,        \* directed edges <<u, v>> in insertion order
    context,        \* last value returned by generate_rag_context
    kgCall,         \* the last call made on the knowledge graph
    kgRepeat,       \* TRUE iff the last call repeats the call before it
    kgPrev,         \* the knowledge graph as it was before the last call
    kgCalls,        \* number of calls made so far
    \* ---- nyuck.py, GraphRAG
    graphNodes,     \* self.graph nodes in insertion order
    graphAttr,      \* node URL -> attribute dict
    graphAdj,       \* node URL -> neighbours in insertion order
    graphWeight,    \* edge {u, v} -> the edge's weight attribute
    content_cache,  \* self.content_cache
    embedding_cache,\* self.embedding_cache
    webCall,        \* the last call made on the GraphRAG object
    webResult,      \* what that call returned or raised
    webOps          \* number of calls made so far

kgVars == <<kgNodes, kgAttr, kgEdges, context, kgCall, kgRepeat, kgPrev, kgCalls>>
webVars == <<graphNodes, graphAttr, graphAdj, graphWeight, content_cache,
             embedding_cache, webCall, webResult, webOps>>
vars == <<response, entity, returned, kgVars, webVars>>

---------------------------------------------------------------------------
\* Bounds of the model
MaxBindings == 2    \* longest SPARQL response
MaxCalls == 3       \* calls made on one DBpediaMedicalGraphRAG object
MaxOps == 3         \* calls made on one GraphRAG object
MaxTopK == 2        \* largest top_k given to query

---------------------------------------------------------------------------
\* Python helpers

EmptyDict == [k \in {} |-> 0]

\* d.update(new)
DictUpdate(d, new) ==
    [k \in DOMAIN d \cup DOMAIN new |-> IF k \in DOMAIN new THEN new[k] ELSE d[k]]

\* d.get(k, default)
DictGet(d, k, default) == IF k \in DOMAIN d THEN d[k] ELSE default

Range(s) == {s[i] : i \in 1..Len(s)}

Min(a, b) == IF a <= b THEN a ELSE b
Max(a, b) == IF a >= b THEN a ELSE b

\* Python None, where the value is otherwise a str
None == "<None>"

\* all sequences over S of length at most n
SeqsUpTo(S, n) == UNION {[1..k -> S] : k \in 0..n}

---------------------------------------------------------------------------
\* glarf.py : query_medical_entity

\* labels, as character sequences
LabelAb == <<"A", "b">>
LabelB == <<"b">>
LabelBa == <<"B", "a", " ", "c">>

\* type URIs, as character sequences
TypeUris == {<<"o", "/", "D">>, <<"h", "/", "o", "/", "P">>}

\* s.split("/")[-1] : the characters after the last "/"
RECURSIVE LastSegment(_)
LastSegment(s) ==
    IF s = <<>> THEN <<>>
    ELSE IF s[Len(s)] = "/" THEN <<>>
    ELSE LastSegment(SubSeq(s, 1, Len(s) - 1)) \o <<s[Len(s)]>>

\* One binding of the SPARQL JSON result: a dict from variable name to its
\* value; ?entity, ?label and ?type are always bound, the OPTIONAL ones
\* (?description, ?related, ?relatedLabel) are keys only when bound.
FullBindings ==
    [entity : {"u1", "u2"}, label : {LabelAb, LabelB}, type : TypeUris,
     description : {"d1"}, related : {"u3"}, relatedLabel : {LabelBa}]

Bindings ==
    {[k \in {"entity", "label", "type"} \cup opt |-> full[k]] :
        full \in FullBindings,
        opt \in SUBSET {"description", "related", "relatedLabel"}}

Responses == SeqsUpTo(Bindings, MaxBindings)

\* the dict built at lines 63-70 for a uri seen for the first time
NewEntityData(result) ==
    [uri |-> result["entity"],
     label |-> result["label"],
     description |-> DictGet(result, "description", None),
     entity_type |-> LastSegment(result["type"]),
     related_entities |-> <<>>,
     source_links |-> <<result["entity"]>>]

\* entity_data is an insertion-ordered dict keyed by uri: a sequence of the
\* dicts, each carrying its key in "uri"
HasUri(entity_data, uri) == \E i \in 1..Len(entity_data) : entity_data[i].uri = uri

\* one iteration of the loop at lines 60-76
ProcessBindingMutant(entity_data, result) ==
    LET uri == result["entity"]
        ed1 == IF HasUri(entity_data, uri) THEN entity_data
               ELSE Append(entity_data, NewEntityData(result))
    IN  IF "related" \in DOMAIN result
        THEN [i \in 1..Len(ed1) |->
                IF ed1[i].uri = uri
                THEN [ed1[i] EXCEPT !.related_entities =
                        Append(@, [uri |-> result["related"],
                                   label |-> DictGet(result, "relatedLabel", <<>>)])]
                ELSE ed1[i]]
        ELSE ed1

ProcessBinding(entity_data, result) ==
    LET uri == result["entity"]
        ed1 == IF HasUri(entity_data, uri) THEN entity_data
               ELSE Append(entity_data, NewEntityData(result))
    IN  IF "related" \in DOMAIN result /\ "relatedLabel" \in DOMAIN result
        THEN [i \in 1..Len(ed1) |->
                IF ed1[i].uri = uri
                THEN [ed1[i] EXCEPT !.related_entities =
                        Append(@, [uri |-> result["related"],
                                   label |-> result["relatedLabel"]])]
                ELSE ed1[i]]
        ELSE ed1

RECURSIVE ProcessBindings(_, _)
ProcessBindings(entity_data, bindings) ==
    IF bindings = <<>> THEN entity_data
    ELSE ProcessBindings(ProcessBinding(entity_data, Head(bindings)), Tail(bindings))

\* lines 59-82: the Optional[MedicalEntity] returned for a response
FirstEntityMutant(entity_data) ==
    IF entity_data # <<>> THEN <<entity_data[Len(entity_data)]>> ELSE <<>>

FirstEntity(entity_data) ==
    IF entity_data # <<>> THEN <<entity_data[1]>> ELSE <<>>

query_medical_entity(bindings) == FirstEntity(ProcessBindings(<<>>, bindings))

QueryMedicalEntity ==
    /\ ~returned
    /\ entity' = query_medical_entity(response)
    /\ returned' = TRUE
    /\ UNCHANGED <<response, kgVars, webVars>>

---------------------------------------------------------------------------
\* glarf.py : self.knowledge_graph, a networkx DiGraph, as a record
\* [nodes, attr, edges]

EmptyGraph == [nodes |-> <<>>, attr |-> EmptyDict, edges |-> <<>>]

\* DiGraph.add_node(n, **attrs): a new node gets the attributes, an existing
\* node's attribute dict is updated with them
AddNode(g, n, attrs) ==
    IF n \in Range(g.nodes)
    THEN [g EXCEPT !.attr = [m \in DOMAIN g.attr |->
                                IF m = n THEN DictUpdate(g.attr[m], attrs)
                                ELSE g.attr[m]]]
    ELSE [g EXCEPT !.nodes = Append(g.nodes, n),
                   !.attr = [m \in DOMAIN g.attr \cup {n} |->
                                IF m = n THEN attrs ELSE g.attr[m]]]

\* DiGraph.add_edge(u, v): both endpoints become nodes, and the edge is
\* stored once in the adjacency dict however often it is added
AddEdgeMutant(g, u, v) ==
    LET g1 == AddNode(AddNode(g, u, EmptyDict), v, EmptyDict)
    IN  [g1 EXCEPT !.edges = Append(g1.edges, <<u, v>>)]

AddEdge(g, u, v) ==
    LET g1 == AddNode(AddNode(g, u, EmptyDict), v, EmptyDict)
    IN  IF <<u, v>> \in Range(g1.edges) THEN g1
        ELSE [g1 EXCEPT !.edges = Append(g1.edges, <<u, v>>)]

\* DiGraph.neighbors(n): the successors of n, in insertion order
Neighbors(g, n) == SelectSeq(g.edges, LAMBDA e : e[1] = n)

\* lines 97-102, one iteration
AddRelated(g, uri, related) ==
    AddEdge(AddNode(g, related.uri, [label |-> related.label]), uri, related.uri)

RECURSIVE AddAllRelated(_, _, _)
AddAllRelated(g, uri, rels) ==
    IF rels = <<>> THEN g
    ELSE AddAllRelated(AddRelated(g, uri, Head(rels)), uri, Tail(rels))

\* lines 84-102
update_knowledge_graph(g, e) ==
    AddAllRelated(
        AddNode(g, e.uri, [label |-> e.label, entity_type |-> e.entity_type,
                           description |-> e.description]),
        e.uri, e.related_entities)

\* The MedicalEntity records given to update_knowledge_graph
RelBa3 == [uri |-> "u3", label |-> LabelBa]
RelB3 == [uri |-> "u3", label |-> LabelB]
RelBa1 == [uri |-> "u1", label |-> LabelBa]
RelatedLists == {<<>>, <<RelBa3>>, <<RelBa3, RelBa3>>, <<RelBa3, RelB3>>,
                 <<RelBa1, RelB3>>}

EntityRecords ==
    {[uri |-> u, label |-> ld[1], description |-> ld[2], entity_type |-> <<"D">>,
      related_entities |-> rl, source_links |-> <<u>>] :
        u \in {"u1", "u2"},
        ld \in {<<LabelAb, None>>, <<LabelB, "d1">>},
        rl \in RelatedLists}

---------------------------------------------------------------------------
\* glarf.py : generate_rag_context

\* str.lower(), on the model's alphabet
LowerChar(c) == CASE c = "A" -> "a" [] c = "B" -> "b" [] c = "C" -> "c" [] OTHER -> c
Lower(s) == [i \in 1..Len(s) |-> LowerChar(s[i])]

Whitespace == {" ", "\t"}

\* str.split() with no argument: the maximal runs of non-whitespace
RECURSIVE SplitFrom(_, _, _)
SplitFrom(s, cur, acc) ==
    IF s = <<>> THEN (IF cur = <<>> THEN acc ELSE Append(acc, cur))
    ELSE IF Head(s) \in Whitespace
         THEN SplitFrom(Tail(s), <<>>, IF cur = <<>> THEN acc ELSE Append(acc, cur))
         ELSE SplitFrom(Tail(s), Append(cur, Head(s)), acc)

\* str.split(" "): every separator ends a field, empty fields are kept
RECURSIVE SplitKeepEmpty(_, _, _)
SplitKeepEmpty(s, cur, acc) ==
    IF s = <<>> THEN Append(acc, cur)
    ELSE IF Head(s) \in Whitespace
         THEN SplitKeepEmpty(Tail(s), <<>>, Append(acc, cur))
         ELSE SplitKeepEmpty(Tail(s), Append(cur, Head(s)), acc)

SplitMutant(s) == SplitKeepEmpty(s, <<>>, <<>>)

Split(s) == SplitFrom(s, <<>>, <<>>)

\* t in s, for strs
IsSubstring(t, s) ==
    \E i \in 0..(Len(s) - Len(t)) : SubSeq(s, i + 1, i + Len(t)) = t

\* line 110: any(term.lower() in data.get('label', '').lower()
\*               for term in query.lower().split())
IsRelevant(data, query) ==
    LET terms == Split(Lower(query))
        label == Lower(DictGet(data, "label", <<>>))
    IN  \E i \in 1..Len(terms) : IsSubstring(Lower(terms[i]), label)

\* lines 108-112: the uris of relevant_nodes, in graph node order
RelevantNodes(g, query) ==
    SelectSeq(g.nodes, LAMBDA n : IsRelevant(g.attr[n], query))

\* line 111: data is the graph's own attribute dict, so data['uri'] = node
\* writes the key into the graph
MarkRelevant(g, query) ==
    [g EXCEPT !.attr = [n \in DOMAIN g.attr |->
                          IF IsRelevant(g.attr[n], query)
                          THEN DictUpdate(g.attr[n], [uri |-> n])
                          ELSE g.attr[n]]]

\* lines 114-121: the context string, as its sequence of lines
HeaderLine == [kind |-> "header", label |-> <<>>, description |-> "", connected |-> <<>>]

\* line 116
NodeLine(data) ==
    [kind |-> "node",
     label |-> DictGet(data, "label", <<"N", "o", "n", "e">>),
     description |-> DictGet(data, "description", "No description available"),
     connected |-> <<>>]

\* lines 118-121
RelatedLine(g, uri) ==
    LET nb == Neighbors(g, uri)
        connected == [i \in 1..Len(nb) |-> g.attr[nb[i][2]]["label"]]
    IN  IF connected # <<>>
        THEN <<[kind |-> "related", label |-> <<>>, description |-> "",
                connected |-> connected]>>
        ELSE <<>>

RECURSIVE ContextLines(_, _)
ContextLines(g, uris) ==
    IF uris = <<>> THEN <<>>
    ELSE <<NodeLine(g.attr[Head(uris)])>> \o RelatedLine(g, Head(uris))
         \o ContextLines(g, Tail(uris))

\* lines 104-123: the value returned and the graph left behind
generate_rag_context(g, query) ==
    LET g1 == MarkRelevant(g, query)
    IN  [context |-> <<HeaderLine>> \o ContextLines(g1, RelevantNodes(g, query)),
         graph |-> g1]

Queries ==
    {<<>>, <<" ", "\t">>, <<"a", "B">>, <<"x", " ", " ", "B">>, <<"c", " ", "a">>}

---------------------------------------------------------------------------
\* The calls made on one DBpediaMedicalGraphRAG object

KG == [nodes |-> kgNodes, attr |-> kgAttr, edges |-> kgEdges]

SetKG(g) ==
    /\ kgNodes' = g.nodes
    /\ kgAttr' = g.attr
    /\ kgEdges' = g.edges

UpdateKnowledgeGraph(e) ==
    /\ kgCalls < MaxCalls
    /\ SetKG(update_knowledge_graph(KG, e))
    /\ kgPrev' = KG
    /\ kgRepeat' = (kgCall.op = "update" /\ kgCall.arg = e)
    /\ kgCall' = [op |-> "update", arg |-> e]
    /\ kgCalls' = kgCalls + 1
    /\ UNCHANGED <<context, response, entity, returned, webVars>>

GenerateRagContext(q) ==
    /\ kgCalls < MaxCalls
    /\ LET r == generate_rag_context(KG, q)
       IN  /\ context' = r.context
           /\ SetKG(r.graph)
    /\ kgPrev' = KG
    /\ kgRepeat' = (kgCall.op = "generate" /\ kgCall.arg = q)
    /\ kgCall' = [op |-> "generate", arg |-> q]
    /\ kgCalls' = kgCalls + 1
    /\ UNCHANGED <<response, entity, returned, webVars>>

---------------------------------------------------------------------------
\* nyuck.py : GraphRAG

Urls == {"a", "b", "c"}

\* What requests.get and BeautifulSoup do for a URL.  An "ok" fetch carries
\* the parsed document: a sequence of elements, each a tag and its text.
Element(tag, text) == [tag |-> tag, text |-> text]

FetchOutcomes ==
    {[status |-> "fetch_error", html |-> <<>>],
     [status |-> "parse_error", html |-> <<>>],
     [status |-> "ok", html |-> <<Element("p", <<"p">>)>>],
     [status |-> "ok", html |-> <<Element("script", <<"w">>),
                                  Element("p", <<" ", "w", " ", " ", "p">>)>>],
     [status |-> "ok", html |-> <<Element("style", <<"p">>)>>]}

\* lines 23-24: script and style elements are decomposed
Decompose(html) == SelectSeq(html, LAMBDA el : el.tag \notin {"script", "style"})

\* line 27: soup.get_text(separator=' '): the remaining texts, ' ' between them
RECURSIVE GetText(_)
GetText(html) ==
    IF html = <<>> THEN <<>>
    ELSE IF Len(html) = 1 THEN Head(html).text
    ELSE Head(html).text \o <<" ">> \o GetText(Tail(html))

\* ' '.join(words)
RECURSIVE Join(_)
Join(words) ==
    IF words = <<>> THEN <<>>
    ELSE IF Len(words) = 1 THEN Head(words)
    ELSE Head(words) \o <<" ">> \o Join(Tail(words))

\* lines 16-33.  The result says whether the call raised and what it returned.
scrape_website_mutant(fetched) ==
    IF fetched.status = "ok"
    THEN [raised |-> FALSE, text |-> Join(Split(GetText(Decompose(fetched.html))))]
    ELSE [raised |-> TRUE, text |-> <<>>]

scrape_website(fetched) ==
    IF fetched.status = "ok"
    THEN [raised |-> FALSE, text |-> Join(Split(GetText(Decompose(fetched.html))))]
    ELSE [raised |-> FALSE, text |-> <<>>]

\* self.embedder.encode([text])[0]: a fixed function from text to a vector.
\* The sentence-transformer is outside the repository; it is stood in for
\* by a vector of character counts.
Count(text, c) == Cardinality({i \in 1..Len(text) : text[i] = c})
Embed(text) == <<1 + Count(text, "p") - Count(text, "w"), 1 + Count(text, "w")>>

\* A float x is the pair [num, den2] with x = num / sqrt(den2), den2 > 0.
Dot(x, y) == x[1] * y[1] + x[2] * y[2]

\* sklearn cosine_similarity([x], [y])[0][0]; a zero vector is left as it is
\* by the normalisation, so its similarity to anything is 0
cosine_similarity(x, y) ==
    IF Dot(x, x) = 0 \/ Dot(y, y) = 0 THEN [num |-> 0, den2 |-> 1]
    ELSE [num |-> Dot(x, y), den2 |-> Dot(x, x) * Dot(y, y)]

SignedSquare(n) == IF n < 0 THEN -(n * n) ELSE n * n

\* x <= y on floats
FloatLeq(x, y) == SignedSquare(x.num) * y.den2 <= SignedSquare(y.num) * x.den2

Half == [num |-> 1, den2 |-> 4]

\* the weight argument of add_edge: <<>> is None
WeightArgs == {<<>>, <<Half>>}

\* nx.Graph.add_node(url, **attrs) on self.graph
GraphAddNode(nodes, attr, adj, url, attrs) ==
    IF url \in Range(nodes)
    THEN [nodes |-> nodes,
          attr |-> [n \in DOMAIN attr |->
                      IF n = url THEN DictUpdate(attr[n], attrs) ELSE attr[n]],
          adj |-> adj]
    ELSE [nodes |-> Append(nodes, url),
          attr |-> [n \in DOMAIN attr \cup {url} |-> IF n = url THEN attrs ELSE attr[n]],
          adj |-> [n \in DOMAIN adj \cup {url} |-> IF n = url THEN <<>> ELSE adj[n]]]

\* lines 35-42
AddNodeCall(url, fetched) ==
    /\ webOps < MaxOps
    /\ url \notin Range(graphNodes)
    /\ LET r == scrape_website(fetched)
       IN  IF r.raised
           THEN /\ webResult' = [status |-> "raised"]
                /\ UNCHANGED <<graphNodes, graphAttr, graphAdj, content_cache,
                               embedding_cache>>
           ELSE LET content == r.text
                    embedding == Embed(content)
                    g == GraphAddNode(graphNodes, graphAttr, graphAdj, url,
                                      [content |-> content, embedding |-> embedding])
                IN  /\ content_cache' = DictUpdate(content_cache, [u \in {url} |-> content])
                    /\ embedding_cache' =
                          DictUpdate(embedding_cache, [u \in {url} |-> embedding])
                    /\ graphNodes' = g.nodes
                    /\ graphAttr' = g.attr
                    /\ graphAdj' = g.adj
                    /\ webResult' = [status |-> "returned"]
    /\ webCall' = [op |-> "add_node", url |-> url, scraped |-> TRUE,
                   fetch |-> fetched.status]
    /\ webOps' = webOps + 1
    /\ UNCHANGED <<graphWeight, response, entity, returned, kgVars>>

\* lines 35-37 when url is already in self.graph: nothing is scraped or stored
AddNodeKnown(url) ==
    /\ webOps < MaxOps
    /\ url \in Range(graphNodes)
    /\ webCall' = [op |-> "add_node", url |-> url, scraped |-> FALSE, fetch |-> "none"]
    /\ webResult' = [status |-> "returned"]
    /\ webOps' = webOps + 1
    /\ UNCHANGED <<graphNodes, graphAttr, graphAdj, graphWeight, content_cache,
                   embedding_cache, response, entity, returned, kgVars>>

\* lines 46-52: the weight handed to self.graph.add_edge
EdgeWeight(url1, url2, weight) ==
    IF weight = <<>> /\ url1 \in DOMAIN embedding_cache /\ url2 \in DOMAIN embedding_cache
    THEN <<cosine_similarity(embedding_cache[url1], embedding_cache[url2])>>
    ELSE weight

AppendNew(s, x) == IF x \in Range(s) THEN s ELSE Append(s, x)

\* lines 44-54.  nx.Graph.add_edge makes both endpoints nodes (with an empty
\* attribute dict when new) and sets the edge's weight attribute.
AddEdgeCall(url1, url2, weight) ==
    /\ webOps < MaxOps
    /\ LET w == EdgeWeight(url1, url2, weight)
           g1 == GraphAddNode(graphNodes, graphAttr, graphAdj, url1, EmptyDict)
           g2 == GraphAddNode(g1.nodes, g1.attr, g1.adj, url2, EmptyDict)
       IN  /\ graphNodes' = g2.nodes
           /\ graphAttr' = g2.attr
           /\ graphAdj' = [n \in DOMAIN g2.adj |->
                            LET s1 == IF n = url1 THEN AppendNew(g2.adj[n], url2)
                                      ELSE g2.adj[n]
                            IN  IF n = url2 THEN AppendNew(s1, url1) ELSE s1]
           /\ graphWeight' = DictUpdate(graphWeight, [e \in {{url1, url2}} |-> w])
    /\ webCall' = [op |-> "add_edge", url1 |-> url1, url2 |-> url2, weight |-> weight]
    /\ webResult' = [status |-> "returned"]
    /\ webOps' = webOps + 1
    /\ UNCHANGED <<content_cache, embedding_cache, response, entity, returned, kgVars>>

\* list.sort(key=lambda x: x[1], reverse=True): stable, descending
RECURSIVE InsertDescending(_, _)
InsertDescending(sorted, x) ==
    IF sorted = <<>> THEN <<x>>
    ELSE IF FloatLeq(x[2], Head(sorted)[2])
         THEN <<Head(sorted)>> \o InsertDescending(Tail(sorted), x)
         ELSE <<x>> \o sorted

RECURSIVE SortDescending(_, _)
SortDescending(sorted, rest) ==
    IF rest = <<>> THEN sorted
    ELSE SortDescending(InsertDescending(sorted, Head(rest)), Tail(rest))

\* s[:k]
Slice(s, k) ==
    IF k >= 0 THEN SubSeq(s, 1, Min(k, Len(s)))
    ELSE SubSeq(s, 1, Max(Len(s) + k, 0))

PreviewLen == 500

QueryTexts == {<<"p">>, <<"w", " ", "w">>}
TopKs == (-1)..MaxTopK

\* lines 56-81: what query returns, or the KeyError of line 62
query(text, top_k) ==
    IF \E i \in 1..Len(graphNodes) : graphNodes[i] \notin DOMAIN embedding_cache
    THEN [status |-> "KeyError", results |-> <<>>]
    ELSE LET query_embedding == Embed(text)
             similarities ==
                [i \in 1..Len(graphNodes) |->
                    <<graphNodes[i],
                      cosine_similarity(query_embedding, embedding_cache[graphNodes[i]])>>]
             top == Slice(SortDescending(<<>>, similarities), top_k)
         IN  [status |-> "returned",
              results |->
                [i \in 1..Len(top) |->
                    [url |-> top[i][1],
                     content |-> Slice(content_cache[top[i][1]], PreviewLen)
                                    \o <<".", ".", ".">>,
                     similarity |-> top[i][2],
                     neighbors |-> graphAdj[top[i][1]]]]]

QueryCall(text, top_k) ==
    /\ webOps < MaxOps
    /\ webResult' = query(text, top_k)
    /\ webCall' = [op |-> "query", text |-> text, top_k |-> top_k]
    /\ webOps' = webOps + 1
    /\ UNCHANGED <<graphNodes, graphAttr, graphAdj, graphWeight, content_cache,
                   embedding_cache, response, entity, returned, kgVars>>

---------------------------------------------------------------------------
\* Initial values

InitEntityVars ==
    /\ response = <<>>
    /\ entity = <<>>
    /\ returned = FALSE

InitKG ==
    /\ kgNodes = <<>>
    /\ kgAttr = EmptyDict
    /\ kgEdges = <<>>
    /\ context = <<>>
    /\ kgCall = [op |-> "none", arg |-> <<>>]
    /\ kgRepeat = FALSE
    /\ kgPrev = EmptyGraph
    /\ kgCalls = 0

InitWeb ==
    /\ graphNodes = <<>>
    /\ graphAttr = EmptyDict
    /\ graphAdj = EmptyDict
    /\ graphWeight = EmptyDict
    /\ content_cache = EmptyDict
    /\ embedding_cache = EmptyDict
    /\ webCall = [op |-> "none"]
    /\ webResult = [status |-> "none"]
    /\ webOps = 0

\* query_medical_entity applied to every bounded SPARQL response
InitQuery ==
    /\ response \in Responses
    /\ entity = <<>>
    /\ returned = FALSE
    /\ InitKG
    /\ InitWeb

NextQuery == QueryMedicalEntity

SpecQuery == InitQuery /\ [][NextQuery]_vars

\* any sequence of update_knowledge_graph and generate_rag_context calls
InitGraph == InitEntityVars /\ InitKG /\ InitWeb

NextGraph ==
    \/ \E e \in EntityRecords : UpdateKnowledgeGraph(e)
    \/ \E q \in Queries : GenerateRagContext(q)

SpecGraph == InitGraph /\ [][NextGraph]_vars

\* any sequence of add_node, add_edge and query calls
InitWebSpec == InitEntityVars /\ InitKG /\ InitWeb

NextWeb ==
    \/ \E url \in Urls, fetched \in FetchOutcomes : AddNodeCall(url, fetched)
    \/ \E url \in Urls : AddNodeKnown(url)
    \/ \E url1, url2 \in Urls, weight \in WeightArgs : AddEdgeCall(url1, url2, weight)
    \/ \E text \in QueryTexts, top_k \in TopKs : QueryCall(text, top_k)

SpecWeb == InitWebSpec /\ [][NextWeb]_vars

---------------------------------------------------------------------------
\* Properties of query_medical_entity (checked under SpecQuery)

SameEntity(bindings) ==
    \A i, j \in 1..Len(bindings) : bindings[i]["entity"] = bindings[j]["entity"]

BothRelated(bindings) ==
    {i \in 1..Len(bindings) :
        "related" \in DOMAIN bindings[i] /\ "relatedLabel" \in DOMAIN bindings[i]}

\* C1: when every binding of the response has the same entity URI, the
\* returned entity's related_entities has as many elements as there are
\* bindings carrying both "related" and "relatedLabel".
C1_RelatedCount ==
    (returned /\ response # <<>> /\ SameEntity(response)) =>
        /\ Len(entity) = 1
        /\ Len(entity[1].related_entities) = Cardinality(BothRelated(response))

\* two bindings of one entity naming the same related URI, and both are kept
C1_Witness ==
    /\ returned
    /\ Len(response) = 2
    /\ SameEntity(response)
    /\ BothRelated(response) = {1, 2}
    /\ response[1]["related"] = response[2]["related"]
    /\ Len(entity[1].related_entities) = 2

\* the part of a type URI after its last "/"
IsLastSegment(seg, typeUri) ==
    \E k \in 1..Len(typeUri) :
        /\ typeUri[k] = "/"
        /\ \A m \in (k + 1)..Len(typeUri) : typeUri[m] # "/"
        /\ seg = SubSeq(typeUri, k + 1, Len(typeUri))

\* the related records of the bindings of one uri, in response order
RECURSIVE RelatedOf(_, _)
RelatedOf(bindings, uri) ==
    IF bindings = <<>> THEN <<>>
    ELSE LET b == Head(bindings)
         IN  (IF /\ b["entity"] = uri
                 /\ "related" \in DOMAIN b
                 /\ "relatedLabel" \in DOMAIN b
              THEN <<[uri |-> b["related"], label |-> b["relatedLabel"]]>>
              ELSE <<>>) \o RelatedOf(Tail(bindings), uri)

\* C2: None is returned exactly for a response without bindings; otherwise
\* the entity of the first binding's URI is returned, its label, description
\* and type are those of that first binding, and only bindings of that URI
\* contribute related entities.
C2_FirstEntityOnly ==
    returned =>
        /\ (entity = <<>>) <=> (response = <<>>)
        /\ Len(entity) <= 1
        /\ response # <<>> =>
             LET first == response[1]
                 e == entity[1]
             IN  /\ e.uri = first["entity"]
                 /\ e.label = first["label"]
                 /\ e.description = (IF "description" \in DOMAIN first
                                     THEN first["description"] ELSE None)
                 /\ IsLastSegment(e.entity_type, first["type"])
                 /\ e.related_entities = RelatedOf(response, e.uri)
                 /\ e.source_links = <<e.uri>>

\* a second binding of another entity, with a related pair, leaves no trace
C2_Witness ==
    /\ returned
    /\ Len(response) = 2
    /\ response[1]["entity"] # response[2]["entity"]
    /\ BothRelated(response) = {2}
    /\ response[1]["label"] # response[2]["label"]
    /\ Len(entity) = 1
    /\ entity[1].related_entities = <<>>

---------------------------------------------------------------------------
\* Properties of the knowledge graph (checked under SpecGraph)

RepeatedUpdate == kgCall.op = "update" /\ kgRepeat

\* C3: a second update_knowledge_graph with the same record leaves the
\* node set, the node attributes and the edge set as the first call left them.
C3_UpdateIdempotent == RepeatedUpdate => KG = kgPrev

C3_Witness ==
    /\ RepeatedUpdate
    /\ Len(kgCall.arg.related_entities) = 2
    /\ Len(kgEdges) >= 2
    /\ KG = kgPrev

\* C4 as stated: the second identical call keeps the node attributes and
\* changes the number of edges.
C4_EdgeCountChanges ==
    (RepeatedUpdate /\ kgCall.arg.related_entities # <<>>) =>
        /\ kgAttr = kgPrev.attr
        /\ Len(kgEdges) # Len(kgPrev.edges)

\* C4 amended: the second identical call keeps the node attributes and
\* keeps the number of edges.
C4_EdgeCountKept ==
    (RepeatedUpdate /\ kgCall.arg.related_entities # <<>>) =>
        /\ kgAttr = kgPrev.attr
        /\ Len(kgEdges) = Len(kgPrev.edges)

C4_Witness ==
    /\ RepeatedUpdate
    /\ kgCall.arg.related_entities # <<>>
    /\ Len(kgEdges) >= 1
    /\ Len(kgEdges) = Len(kgPrev.edges)
    /\ kgAttr = kgPrev.attr

\* the whitespace-separated tokens of a query
Tokens(q) ==
    {SubSeq(q, i, j) : <<i, j>> \in
        {ij \in (1..Len(q)) \X (1..Len(q)) :
            /\ ij[1] <= ij[2]
            /\ \A m \in ij[1]..ij[2] : q[m] \notin Whitespace
            /\ ij[1] = 1 \/ q[ij[1] - 1] \in Whitespace
            /\ ij[2] = Len(q) \/ q[ij[2] + 1] \in Whitespace}}

SameIgnoringCase(c, d) == LowerChar(c) = LowerChar(d)

\* some token of q occurs in label, case ignored
TokenInLabel(q, label) ==
    \E t \in Tokens(q) : \E k \in 0..(Len(label) - Len(t)) :
        \A m \in 1..Len(t) : SameIgnoringCase(t[m], label[k + m])

NodeLines(lines) == SelectSeq(lines, LAMBDA l : l.kind = "node")

\* C5: generate_rag_context emits one line per node whose label contains a
\* token of the query (case ignored), in graph node order, and for no other
\* node; a query without tokens yields the header alone.
C5_ContextMatches ==
    kgCall.op = "generate" =>
        LET q == kgCall.arg
            expected == SelectSeq(kgPrev.nodes,
                           LAMBDA n : TokenInLabel(q, kgPrev.attr[n]["label"]))
            emitted == NodeLines(context)
        IN  /\ Head(context) = HeaderLine
            /\ Len(emitted) = Len(expected)
            /\ \A i \in 1..Len(expected) :
                  emitted[i].label = kgPrev.attr[expected[i]]["label"]
            /\ Tokens(q) = {} => context = <<HeaderLine>>

\* a two-token query over a graph where some node matches and some does not
C5_Witness ==
    /\ kgCall.op = "generate"
    /\ Cardinality(Tokens(kgCall.arg)) = 2
    /\ Len(kgPrev.nodes) >= 2
    /\ Len(NodeLines(context)) >= 1
    /\ Len(NodeLines(context)) < Len(kgPrev.nodes)

\* C9: generate_rag_context leaves the node set, the edge set and every
\* node's attribute dict as they were.
C9_GenerateReadOnly == kgCall.op = "generate" => KG = kgPrev

---------------------------------------------------------------------------
\* Properties of GraphRAG (checked under SpecWeb)

\* C6: query with top_k >= 0 returns min(top_k, number of nodes) results in
\* non-increasing order of similarity.
C6_QueryRanks ==
    (webCall.op = "query" /\ webCall.top_k >= 0) =>
        /\ webResult.status = "returned"
        /\ Len(webResult.results) = Min(webCall.top_k, Len(graphNodes))
        /\ \A i, j \in 1..Len(webResult.results) :
              i <= j => FloatLeq(webResult.results[j].similarity,
                                 webResult.results[i].similarity)

ScrapeFailed ==
    /\ webCall.op = "add_node"
    /\ webCall.scraped
    /\ webCall.fetch \in {"fetch_error", "parse_error"}

\* C7: when add_node's scrape fails, nothing is raised and the url is stored
\* with empty content and the embedding of the empty string, in the graph
\* and in both caches.
C7_ScrapeFailureStored ==
    ScrapeFailed =>
        LET url == webCall.url
        IN  /\ webResult.status = "returned"
            /\ url \in Range(graphNodes)
            /\ url \in DOMAIN content_cache /\ content_cache[url] = <<>>
            /\ url \in DOMAIN embedding_cache /\ embedding_cache[url] = Embed(<<>>)
            /\ graphAttr[url] = [content |-> <<>>, embedding |-> Embed(<<>>)]

C7_Witness ==
    /\ ScrapeFailed
    /\ webResult.status = "returned"
    /\ content_cache[webCall.url] = <<>>
    /\ Len(graphNodes) >= 2

\* C8: every edge has a weight: the one supplied in the latest add_edge for
\* the pair, or else the cosine similarity of the endpoints' cached
\* embeddings; never None.
C8_EdgesWeighted ==
    /\ \A e \in DOMAIN graphWeight : graphWeight[e] # <<>>
    /\ webCall.op = "add_edge" =>
          LET w == graphWeight[{webCall.url1, webCall.url2}]
          IN  IF webCall.weight # <<>> THEN w = webCall.weight
              ELSE /\ webCall.url1 \in DOMAIN embedding_cache
                   /\ webCall.url2 \in DOMAIN embedding_cache
                   /\ w = <<cosine_similarity(embedding_cache[webCall.url1],
                                              embedding_cache[webCall.url2])>>

\* C10: the graph's nodes, the keys of content_cache and the keys of
\* embedding_cache are one set, each node's content and embedding are its
\* cache entries, and after add_node(url) the url is in both caches.
C10_CachesMatchGraph ==
    /\ Range(graphNodes) = DOMAIN content_cache
    /\ Range(graphNodes) = DOMAIN embedding_cache
    /\ \A n \in Range(graphNodes) :
          graphAttr[n] = [content |-> content_cache[n],
                          embedding |-> embedding_cache[n]]
    /\ webCall.op = "add_node" =>
          /\ webCall.url \in DOMAIN content_cache
          /\ webCall.url \in DOMAIN embedding_cache

=============================================================================
